---- MODULE Spec2Model ----
(***************************************************************************)
(* Model of api/client/credentials.go (the three Credentials variants and  *)
(* the configure post-processing step) and of lib/auth/test/suite.go (the  *)
(* certificate-authority acceptance suite).                                *)
(*                                                                         *)
(* Go pointers are references into per-type heaps (sequences; reference 0  *)
(* is nil), so that a shallow copy, an alias and a fresh allocation are    *)
(* different things in the model.                                          *)
(***************************************************************************)
EXTENDS Integers, Sequences, FiniteSets, TLC

VARIABLES
    src,        \* the credential source built by LoadTLS/LoadKeyPair/LoadIdentityFile
    fs,         \* contents of the files the source refers to
    heap,       \* Go heap: configs, cells (closure variables), pools, bytes, protos
    calls,      \* results returned to the callers so far, in order
    fileChanges,\* number of external file modifications so far
    lastWrite,  \* the last write a caller made through a returned configuration
    writes,     \* number of caller writes so far
    clock,      \* the suite's injected clock (s.Clock.Now())
    pc,         \* position of the acceptance suite
    cert,       \* the suite's local variable cert
    issued,     \* what the authority returned for each request of the sequence
    verdict     \* outcome of the running check

vars == <<src, fs, heap, calls, fileChanges, lastWrite, writes,
          clock, pc, cert, issued, verdict>>

credVars  == <<src, fs, heap, calls, fileChanges, lastWrite, writes>>
suiteVars == <<clock, pc, cert, issued, verdict>>

----------------------------------------------------------------------------
(* Bounds *)

MaxCalls == 2
MaxCerts == 2
MaxFileChanges == 1
MaxWrites == 1

----------------------------------------------------------------------------
(* Constants of the program *)

\* constants.APIDomain
APIDomain == "teleport.cluster.local"
\* http2.NextProtoTLS
NextProtoTLS == "h2"

\* error kinds; NoError is Go's nil error
NoError == ""
\* the error kinds the specification calls IOFailure: the raw read error, or
\* what trace.ConvertSystemError turns it into
IOFailure == {"ENOENT", "EACCES", "NotFound", "AccessDenied"}

\* trace.Wrap keeps the wrapped error's kind
Wrap(err) == err

\* trace.ConvertSystemError
ConvertSystemError(err) ==
    CASE err = "ENOENT" -> "NotFound"
      [] err = "EACCES" -> "AccessDenied"
      [] OTHER -> err

----------------------------------------------------------------------------
(* Files *)

CertPath == "cert.pem"
KeyPath == "key.pem"
CAPath == "ca.pem"
IdentityPath == "identity"
Paths == {CertPath, KeyPath, CAPath, IdentityPath}

Unreadable == {"missing", "denied"}

\* a file is a record: st is "missing", "denied" or "ok"; id and blocks are
\* the content of a readable file. A certificate or key file holds an id ("bad"
\* when it does not parse); key k pairs with certificate c when k = c.
\* A CA file is a sequence of PEM blocks, "junk" being a block that is not
\* a parsable certificate. An identity file holds "undecodable", "badtls"
\* (decodes, but its TLS material does not load), "badssh" or an identity id.
File(st, id, blocks) == [st |-> st, id |-> id, blocks |-> blocks]
NoFile == File("missing", "", <<>>)

CertFiles == {File("missing", "", <<>>), File("denied", "", <<>>),
              File("ok", "bad", <<>>), File("ok", "1", <<>>), File("ok", "2", <<>>)}
KeyFiles == {File("missing", "", <<>>), File("ok", "bad", <<>>),
             File("ok", "1", <<>>), File("ok", "2", <<>>)}
CAFiles == {File("missing", "", <<>>), File("denied", "", <<>>),
            File("ok", "", <<>>), File("ok", "", <<"junk">>),
            File("ok", "", <<"ca1">>), File("ok", "", <<"ca1", "junk">>),
            File("ok", "", <<"junk", "ca2">>), File("ok", "", <<"ca1", "ca2">>)}
IdentityFiles == {File("missing", "", <<>>), File("denied", "", <<>>),
                  File("ok", "undecodable", <<>>), File("ok", "badtls", <<"ca1">>), File("ok", "badssh", <<"ca1">>),
                  File("ok", "1", <<"ca1">>), File("ok", "2", <<"ca2">>)}

FilesAt(p) ==
    CASE p = CertPath -> CertFiles
      [] p = KeyPath -> KeyFiles
      [] p = CAPath -> CAFiles
      [] p = IdentityPath -> IdentityFiles

\* ioutil.ReadFile / os.Open: the error of reading file f
ReadFile(f) ==
    CASE f.st = "missing" -> "ENOENT"
      [] f.st = "denied" -> "EACCES"
      [] OTHER -> NoError

----------------------------------------------------------------------------
(* Heap *)

EmptyHeap == [configs |-> <<>>, cells |-> <<>>, pools |-> <<>>,
              bytes |-> <<>>, protos |-> <<>>]

\* tls.Certificate: Certificate is a reference to the chain's bytes (a Go
\* slice shares its backing array when the struct is copied), PrivateKey an id
Certificate(bytesRef, key) == [Certificate |-> bytesRef, PrivateKey |-> key]

\* tls.Config, the fields the program touches
Config(certs, cb, pool, protos, name) ==
    [Certificates |-> certs, GetClientCertificate |-> cb, RootCAs |-> pool,
     NextProtos |-> protos, ServerName |-> name]

\* the result of an operation that allocates: the heap after it, the
\* returned reference (0 is nil), the returned ssh configuration ("" is nil)
\* and the error
Result(h, ref, ssh, err) == [h |-> h, ref |-> ref, ssh |-> ssh, err |-> err]

----------------------------------------------------------------------------
(* configure: the post-processing of every resolved TLS configuration *)

\* variant of configure: the callback captures the last certificate
configure_lastCert(c, h) ==
    LET cloned == h.configs[c]
        named == IF cloned.ServerName = ""
                 THEN [cloned EXCEPT !.ServerName = APIDomain] ELSE cloned
        hasCert == Len(named.Certificates) > 0
        out == IF hasCert
               THEN [named EXCEPT !.NextProtos = Len(h.protos) + 1,
                                  !.Certificates = <<>>,
                                  !.GetClientCertificate = Len(h.cells) + 1]
               ELSE [named EXCEPT !.NextProtos = Len(h.protos) + 1]
        h1 == [h EXCEPT !.protos = Append(@, <<NextProtoTLS>>),
                        !.cells = IF hasCert
                                  THEN Append(@, named.Certificates[Len(named.Certificates)])
                                  ELSE @,
                        !.configs = Append(@, out)]
    IN Result(h1, Len(h1.configs), "", NoError)

\* variant of configure: no Clone, the input configuration is changed in place
configure_inPlace(c, h) ==
    LET cloned == h.configs[c]
        named == IF cloned.ServerName = ""
                 THEN [cloned EXCEPT !.ServerName = APIDomain] ELSE cloned
        hasCert == Len(named.Certificates) > 0
        out == IF hasCert
               THEN [named EXCEPT !.NextProtos = Len(h.protos) + 1,
                                  !.Certificates = <<>>,
                                  !.GetClientCertificate = Len(h.cells) + 1]
               ELSE [named EXCEPT !.NextProtos = Len(h.protos) + 1]
        h1 == [h EXCEPT !.protos = Append(@, <<NextProtoTLS>>),
                        !.cells = IF hasCert THEN Append(@, named.Certificates[1]) ELSE @,
                        !.configs = [@ EXCEPT ![c] = out]]
    IN Result(h1, c, "", NoError)

\* variant of configure: the protocol list is stored into the slice the
\* clone shares with its input when there is one
configure_sharedProtos(c, h) ==
    LET cloned == h.configs[c]
        fresh == cloned.NextProtos = 0
        protoRef == IF fresh THEN Len(h.protos) + 1 ELSE cloned.NextProtos
        named == IF cloned.ServerName = ""
                 THEN [cloned EXCEPT !.ServerName = APIDomain] ELSE cloned
        hasCert == Len(named.Certificates) > 0
        out == IF hasCert
               THEN [named EXCEPT !.NextProtos = protoRef,
                                  !.Certificates = <<>>,
                                  !.GetClientCertificate = Len(h.cells) + 1]
               ELSE [named EXCEPT !.NextProtos = protoRef]
        h1 == [h EXCEPT !.protos = IF fresh THEN Append(@, <<NextProtoTLS>>)
                                   ELSE [@ EXCEPT ![protoRef] = <<NextProtoTLS>>],
                        !.cells = IF hasCert THEN Append(@, named.Certificates[1]) ELSE @,
                        !.configs = Append(@, out)]
    IN Result(h1, Len(h1.configs), "", NoError)

\* variant of configure: the server name is always the API domain
configure_alwaysDefault(c, h) ==
    LET cloned == h.configs[c]
        named == [cloned EXCEPT !.ServerName = APIDomain]
        hasCert == Len(named.Certificates) > 0
        out == IF hasCert
               THEN [named EXCEPT !.NextProtos = Len(h.protos) + 1,
                                  !.Certificates = <<>>,
                                  !.GetClientCertificate = Len(h.cells) + 1]
               ELSE [named EXCEPT !.NextProtos = Len(h.protos) + 1]
        h1 == [h EXCEPT !.protos = Append(@, <<NextProtoTLS>>),
                        !.cells = IF hasCert THEN Append(@, named.Certificates[1]) ELSE @,
                        !.configs = Append(@, out)]
    IN Result(h1, Len(h1.configs), "", NoError)

\* configure(c *tls.Config) *tls.Config
\*   cloned : c.Clone(), a shallow copy: the fields of the new struct hold
\*            the same references as the input's
\*   the protocol list is a newly allocated slice holding NextProtoTLS
\*   the server name is defaulted when empty
\*   with at least one certificate: cert := Certificates[0] is a new
\*   variable (a cell) holding a copy of the struct, the static list becomes
\*   nil and the callback is a closure returning the cell's address
configure(c, h) ==
    LET cloned == h.configs[c]
        named == IF cloned.ServerName = ""
                 THEN [cloned EXCEPT !.ServerName = APIDomain] ELSE cloned
        hasCert == Len(named.Certificates) > 0
        out == IF hasCert
               THEN [named EXCEPT !.NextProtos = Len(h.protos) + 1,
                                  !.Certificates = <<>>,
                                  !.GetClientCertificate = Len(h.cells) + 1]
               ELSE [named EXCEPT !.NextProtos = Len(h.protos) + 1]
        h1 == [h EXCEPT !.protos = Append(@, <<NextProtoTLS>>),
                        !.cells = IF hasCert THEN Append(@, named.Certificates[1]) ELSE @,
                        !.configs = Append(@, out)]
    IN Result(h1, Len(h1.configs), "", NoError)

----------------------------------------------------------------------------
(* TLSConfigCreds *)

\* LoadTLS(tlsConfig)
LoadTLS(tlsConfig) ==
    [variant |-> "TLSConfigCreds", tlsConfig |-> tlsConfig,
     certFile |-> "", keyFile |-> "", caFile |-> "", path |-> ""]

TLSConfigCreds_Dialer(c, h) == Result(h, 0, "", "NotImplemented")

TLSConfigCreds_TLSConfig(c, h) ==
    IF c.tlsConfig = 0
    THEN Result(h, 0, "", "BadParameter")
    ELSE configure(c.tlsConfig, h)

TLSConfigCreds_SSHClientConfig(c, h) == Result(h, 0, "", "NotImplemented")

----------------------------------------------------------------------------
(* KeyPairCreds *)

LoadKeyPair(certFile, keyFile, caFile) ==
    [variant |-> "KeyPairCreds", tlsConfig |-> 0,
     certFile |-> certFile, keyFile |-> keyFile, caFile |-> caFile, path |-> ""]

\* tls.LoadX509KeyPair: reads the certificate file, then the key file, then
\* parses and pairs them
LoadX509KeyPair(certF, keyF) ==
    CASE ReadFile(certF) # NoError -> [err |-> ReadFile(certF), id |-> ""]
      [] ReadFile(keyF) # NoError -> [err |-> ReadFile(keyF), id |-> ""]
      [] certF.id = "bad" \/ keyF.id = "bad" \/ certF.id # keyF.id ->
            [err |-> "TLSError", id |-> ""]
      [] OTHER -> [err |-> NoError, id |-> certF.id]

\* x509.CertPool.AppendCertsFromPEM: adds every block that parses as a
\* certificate; ok when at least one was added
AppendCertsFromPEM(pool, blocks) ==
    LET parsed == {blocks[i] : i \in {j \in DOMAIN blocks : blocks[j] # "junk"}}
    IN [pool |-> pool \cup parsed, ok |-> parsed # {}]

\* variant: the case of a Dialer returning something else than NotImplemented
KeyPairCreds_Dialer_badParameter(c, h) == Result(h, 0, "", "BadParameter")

KeyPairCreds_Dialer(c, h) == Result(h, 0, "", "NotImplemented")

\* the configuration literal &tls.Config{Certificates: {cert}, RootCAs: pool}
\* handed to configure
KeyPairConfig(h, id, pool) ==
    LET h1 == [h EXCEPT !.bytes = Append(@, id),
                        !.pools = Append(@, pool)]
    IN [h1 EXCEPT !.configs =
            Append(@, Config(<<Certificate(Len(h1.bytes), id)>>, 0, Len(h1.pools), 0, ""))]

\* variant: the result of AppendCertsFromPEM is ignored
KeyPairCreds_TLSConfig_noOkCheck(c, files, h) ==
    LET kp == LoadX509KeyPair(files[c.certFile], files[c.keyFile])
        caErr == ReadFile(files[c.caFile])
        app == AppendCertsFromPEM({}, files[c.caFile].blocks)
        h1 == KeyPairConfig(h, kp.id, app.pool)
    IN CASE kp.err # NoError -> Result(h, 0, "", Wrap(kp.err))
         [] caErr # NoError -> Result(h, 0, "", ConvertSystemError(caErr))
         [] OTHER -> configure(Len(h1.configs), h1)

\* variant: a configuration built by an earlier call is returned again
KeyPairCreds_TLSConfig_cached(c, files, h) ==
    LET kp == LoadX509KeyPair(files[c.certFile], files[c.keyFile])
        caErr == ReadFile(files[c.caFile])
        app == AppendCertsFromPEM({}, files[c.caFile].blocks)
        h1 == KeyPairConfig(h, kp.id, app.pool)
    IN CASE Len(h.configs) > 0 -> Result(h, Len(h.configs), "", NoError)
         [] kp.err # NoError -> Result(h, 0, "", Wrap(kp.err))
         [] caErr # NoError -> Result(h, 0, "", ConvertSystemError(caErr))
         [] ~app.ok -> Result(h, 0, "", "BadParameter")
         [] OTHER -> configure(Len(h1.configs), h1)

KeyPairCreds_TLSConfig(c, files, h) ==
    LET kp == LoadX509KeyPair(files[c.certFile], files[c.keyFile])
        caErr == ReadFile(files[c.caFile])
        app == AppendCertsFromPEM({}, files[c.caFile].blocks)
        h1 == KeyPairConfig(h, kp.id, app.pool)
    IN CASE kp.err # NoError -> Result(h, 0, "", Wrap(kp.err))
         [] caErr # NoError -> Result(h, 0, "", ConvertSystemError(caErr))
         [] ~app.ok -> Result(h, 0, "", "BadParameter")
         [] OTHER -> configure(Len(h1.configs), h1)

KeyPairCreds_SSHClientConfig(c, h) == Result(h, 0, "", "NotImplemented")

----------------------------------------------------------------------------
(* IdentityCreds *)

LoadIdentityFile(path) ==
    [variant |-> "IdentityCreds", tlsConfig |-> 0,
     certFile |-> "", keyFile |-> "", caFile |-> "", path |-> path]

\* ReadIdentityFile: fails when the file cannot be read or decoded
ReadIdentityFile(f) ==
    CASE ReadFile(f) # NoError -> ReadFile(f)
      [] f.id = "undecodable" -> "BadParameter"
      [] OTHER -> NoError

\* IdentityFile.TLSConfig: a configuration holding the identity's
\* certificate and CA pool, or an error when the TLS material does not load
IdentityFile_TLSConfig(f, h) ==
    IF f.id = "badtls"
    THEN Result(h, 0, "", "TLSError")
    ELSE LET h1 == KeyPairConfig(h, f.id, AppendCertsFromPEM({}, f.blocks).pool)
         IN Result(h1, Len(h1.configs), "", NoError)

\* IdentityFile.SSHClientConfig: the identity's ssh configuration, or an
\* error when the SSH material does not load
IdentityFile_SSHClientConfig(f, h) ==
    IF f.id = "badssh"
    THEN Result(h, 0, "", "SSHError")
    ELSE Result(h, 0, f.id, NoError)

IdentityCreds_Dialer(c, h) == Result(h, 0, "", "NotImplemented")

IdentityCreds_TLSConfig(c, files, h) ==
    LET f == files[c.path]
        tlsConfig == IdentityFile_TLSConfig(f, h)
    IN CASE ReadIdentityFile(f) # NoError -> Result(h, 0, "", "BadParameter")
         [] tlsConfig.err # NoError -> Result(h, 0, "", Wrap(tlsConfig.err))
         [] OTHER -> configure(tlsConfig.ref, tlsConfig.h)

IdentityCreds_SSHClientConfig(c, files, h) ==
    LET f == files[c.path]
        sshConfig == IdentityFile_SSHClientConfig(f, h)
    IN CASE ReadIdentityFile(f) # NoError -> Result(h, 0, "", "BadParameter")
         [] sshConfig.err # NoError -> Result(h, 0, "", Wrap(sshConfig.err))
         [] OTHER -> sshConfig

----------------------------------------------------------------------------
(* State after construction *)

NoWrite == [via |-> 0, what |-> ""]
NoTime == [sec |-> 0, nsec |-> 0]
NoCert == [ok |-> FALSE, ValidAfter |-> 0, ValidBefore |-> 0,
           roles |-> <<>>, impersonator |-> ""]

SuiteIdle ==
    /\ clock = NoTime
    /\ pc = "idle"
    /\ cert = NoCert
    /\ issued = <<>>
    /\ verdict = "none"

\* the heap holding a caller-built *tls.Config with n certificates, and
\* optionally a client-certificate callback of the caller's (a closure over
\* a certificate of its own), a CA pool and a protocol list
InputHeap(n, hasCb, hasPool, hasProtos, name) ==
    [configs |-> <<Config([i \in 1..n |-> Certificate(i, ToString(i))],
                          IF hasCb THEN 1 ELSE 0,
                          IF hasPool THEN 1 ELSE 0,
                          IF hasProtos THEN 1 ELSE 0,
                          name)>>,
     cells |-> IF hasCb THEN <<Certificate(n + 1, "user")>> ELSE <<>>,
     pools |-> IF hasPool THEN <<{"ca1"}>> ELSE <<>>,
     bytes |-> [i \in 1..n |-> ToString(i)] \o (IF hasCb THEN <<"user">> ELSE <<>>),
     protos |-> IF hasProtos THEN <<<<"http/1.1">>>> ELSE <<>>]

InitTLSConfigCreds ==
    /\ fs = [p \in Paths |-> NoFile]
    /\ \/ /\ src = LoadTLS(0)
          /\ heap = EmptyHeap
       \/ /\ src = LoadTLS(1)
          /\ \E n \in 0..MaxCerts, hasCb \in BOOLEAN, hasPool \in BOOLEAN,
                hasProtos \in BOOLEAN, name \in {"", "auth.example.com"} :
                heap = InputHeap(n, hasCb, hasPool, hasProtos, name)

InitKeyPairCreds ==
    /\ src = LoadKeyPair(CertPath, KeyPath, CAPath)
    /\ heap = EmptyHeap
    /\ \E cf \in CertFiles, kf \in KeyFiles, caf \in CAFiles :
          fs = [p \in Paths |-> CASE p = CertPath -> cf
                                  [] p = KeyPath -> kf
                                  [] p = CAPath -> caf
                                  [] OTHER -> NoFile]

InitIdentityCreds ==
    /\ src = LoadIdentityFile(IdentityPath)
    /\ heap = EmptyHeap
    /\ \E f \in IdentityFiles :
          fs = [p \in Paths |-> IF p = IdentityPath THEN f ELSE NoFile]

Init ==
    /\ calls = <<>>
    /\ fileChanges = 0
    /\ lastWrite = NoWrite
    /\ writes = 0
    /\ SuiteIdle
    /\ \/ InitTLSConfigCreds
       \/ InitKeyPairCreds
       \/ InitIdentityCreds

----------------------------------------------------------------------------
(* Calls on the credential source *)

\* the caller receives the result r of operation op
Return(op, r) ==
    /\ Len(calls) < MaxCalls
    /\ calls' = Append(calls, [op |-> op, ref |-> r.ref, ssh |-> r.ssh,
                               err |-> r.err, fsAt |-> fs])
    /\ heap' = r.h
    /\ UNCHANGED <<src, fs, fileChanges, lastWrite, writes>>
    /\ UNCHANGED suiteVars

CallTLSConfigCredsDialer ==
    /\ src.variant = "TLSConfigCreds"
    /\ Return("Dialer", TLSConfigCreds_Dialer(src, heap))

CallTLSConfigCredsTLSConfig ==
    /\ src.variant = "TLSConfigCreds"
    /\ Return("TLSConfig", TLSConfigCreds_TLSConfig(src, heap))

CallTLSConfigCredsSSHClientConfig ==
    /\ src.variant = "TLSConfigCreds"
    /\ Return("SSHClientConfig", TLSConfigCreds_SSHClientConfig(src, heap))

CallKeyPairCredsDialer ==
    /\ src.variant = "KeyPairCreds"
    /\ Return("Dialer", KeyPairCreds_Dialer(src, heap))

CallKeyPairCredsTLSConfig ==
    /\ src.variant = "KeyPairCreds"
    /\ Return("TLSConfig", KeyPairCreds_TLSConfig(src, fs, heap))

CallKeyPairCredsSSHClientConfig ==
    /\ src.variant = "KeyPairCreds"
    /\ Return("SSHClientConfig", KeyPairCreds_SSHClientConfig(src, heap))

CallIdentityCredsDialer ==
    /\ src.variant = "IdentityCreds"
    /\ Return("Dialer", IdentityCreds_Dialer(src, heap))

CallIdentityCredsTLSConfig ==
    /\ src.variant = "IdentityCreds"
    /\ Return("TLSConfig", IdentityCreds_TLSConfig(src, fs, heap))

CallIdentityCredsSSHClientConfig ==
    /\ src.variant = "IdentityCreds"
    /\ Return("SSHClientConfig", IdentityCreds_SSHClientConfig(src, fs, heap))

\* the paths the source refers to
PathsOf(c) == {c.certFile, c.keyFile, c.caFile, c.path} \ {""}

\* the environment replaces a file the source refers to
FileChange ==
    /\ fileChanges < MaxFileChanges
    /\ \E p \in PathsOf(src) : \E f \in FilesAt(p) \ {fs[p]} :
          fs' = [fs EXCEPT ![p] = f]
    /\ fileChanges' = fileChanges + 1
    /\ UNCHANGED <<src, heap, calls, lastWrite, writes>>
    /\ UNCHANGED suiteVars

Next ==
    \/ CallTLSConfigCredsDialer
    \/ CallTLSConfigCredsTLSConfig
    \/ CallTLSConfigCredsSSHClientConfig
    \/ CallKeyPairCredsDialer
    \/ CallKeyPairCredsTLSConfig
    \/ CallKeyPairCredsSSHClientConfig
    \/ CallIdentityCredsDialer
    \/ CallIdentityCredsTLSConfig
    \/ CallIdentityCredsSSHClientConfig
    \/ FileChange

Spec == Init /\ [][Next]_vars

----------------------------------------------------------------------------
(* Writes of the callers through the configurations they were handed *)

\* the calls that returned a TLS configuration
Resolved == {k \in DOMAIN calls : calls[k].op = "TLSConfig" /\ calls[k].ref # 0}

Wrote(k, what) ==
    /\ writes' = writes + 1
    /\ lastWrite' = [via |-> k, what |-> what]
    /\ UNCHANGED <<src, fs, calls, fileChanges>>
    /\ UNCHANGED suiteVars

\* cfg.RootCAs.AddCert(...)
WritePool ==
    /\ writes < MaxWrites
    /\ \E k \in Resolved :
          LET cfg == heap.configs[calls[k].ref] IN
          /\ cfg.RootCAs # 0
          /\ heap' = [heap EXCEPT !.pools[cfg.RootCAs] = @ \cup {"tampered"}]
          /\ Wrote(k, "pool")

\* cfg.NextProtos[0] = ...
WriteProtos ==
    /\ writes < MaxWrites
    /\ \E k \in Resolved :
          LET cfg == heap.configs[calls[k].ref] IN
          /\ cfg.NextProtos # 0
          /\ heap' = [heap EXCEPT !.protos[cfg.NextProtos] = <<"tampered">>]
          /\ Wrote(k, "protos")

\* cert, _ := cfg.GetClientCertificate(nil); cert.PrivateKey = ...
WriteCert ==
    /\ writes < MaxWrites
    /\ \E k \in Resolved :
          LET cfg == heap.configs[calls[k].ref] IN
          /\ cfg.GetClientCertificate # 0
          /\ heap' = [heap EXCEPT !.cells[cfg.GetClientCertificate].PrivateKey = "tampered"]
          /\ Wrote(k, "cert")

\* cert, _ := cfg.GetClientCertificate(nil); cert.Certificate[0][0] = ...
WriteBytes ==
    /\ writes < MaxWrites
    /\ \E k \in Resolved :
          LET cfg == heap.configs[calls[k].ref] IN
          /\ cfg.GetClientCertificate # 0
          /\ heap' = [heap EXCEPT
                  !.bytes[heap.cells[cfg.GetClientCertificate].Certificate] = "tampered"]
          /\ Wrote(k, "bytes")

NextAlias ==
    \/ Next
    \/ WritePool
    \/ WriteProtos
    \/ WriteCert
    \/ WriteBytes

SpecAlias == Init /\ [][NextAlias]_vars

----------------------------------------------------------------------------
(* What can be observed through a configuration *)

\* a certificate as a handshake would send it
Sent(h, c) == [der |-> h.bytes[c.Certificate], key |-> c.PrivateKey]

\* everything a user of configuration ref of heap h can observe: the static
\* certificates, the certificate the callback returns, the CA pool, the
\* protocol list and the server name
View(h, ref) ==
    LET cfg == h.configs[ref] IN
    [static |-> [i \in DOMAIN cfg.Certificates |-> Sent(h, cfg.Certificates[i])],
     callback |-> IF cfg.GetClientCertificate = 0 THEN <<>>
                  ELSE <<Sent(h, h.cells[cfg.GetClientCertificate])>>,
     pool |-> IF cfg.RootCAs = 0 THEN <<>> ELSE <<h.pools[cfg.RootCAs]>>,
     protos |-> IF cfg.NextProtos = 0 THEN <<>> ELSE h.protos[cfg.NextProtos],
     name |-> cfg.ServerName]

\* the configuration post-processing was applied to in call k: the source's
\* own for TLSConfigCreds, the one built just before the result otherwise
InputOf(k) ==
    IF src.variant = "TLSConfigCreds" THEN src.tlsConfig ELSE calls[k].ref - 1

----------------------------------------------------------------------------
(* Properties of the credential sources *)

\* the calls to TLSConfig
TLSCalls == {k \in DOMAIN calls : calls[k].op = "TLSConfig"}

\* C1: whenever the configuration post-processing was applied to carries at
\* least one certificate, the returned configuration has an empty static
\* certificate list and its client-certificate callback returns the input's
\* (first) certificate; this stays so in every later state, that is on
\* every invocation of the callback.
C1_CallbackReturnsCertificate ==
    \A k \in Resolved :
        LET in == heap.configs[InputOf(k)]
            out == heap.configs[calls[k].ref]
        IN Len(in.Certificates) >= 1 =>
              /\ calls[k].err = NoError
              /\ out.Certificates = <<>>
              /\ out.GetClientCertificate # 0
              /\ heap.cells[out.GetClientCertificate] = in.Certificates[1]
              /\ View(heap, calls[k].ref).callback = <<Sent(heap, in.Certificates[1])>>

\* an input with several certificates and a callback of its own has been
\* post-processed twice
C1_Witness ==
    /\ src.variant = "TLSConfigCreds"
    /\ Cardinality(Resolved) = 2
    /\ Len(heap.configs[src.tlsConfig].Certificates) >= 2
    /\ heap.configs[src.tlsConfig].GetClientCertificate # 0
    /\ \A k \in Resolved :
          View(heap, calls[k].ref).callback = <<[der |-> "1", key |-> "1"]>>

\* the capabilities a variant does not support
Unsupported(variant, op) ==
    \/ op = "Dialer"
    \/ op = "SSHClientConfig" /\ variant \in {"TLSConfigCreds", "KeyPairCreds"}

\* C2: a call for a capability the variant does not support returns a nil
\* result and a NotImplemented error, whatever the inputs of the source and
\* whatever was called before.
C2_UnsupportedCapability ==
    \A k \in DOMAIN calls :
        Unsupported(src.variant, calls[k].op) =>
            /\ calls[k].ref = 0
            /\ calls[k].ssh = ""
            /\ calls[k].err = "NotImplemented"

\* a Dialer call on a key pair whose files are missing, after a failed
\* TLSConfig call
C2_Witness ==
    /\ src.variant = "KeyPairCreds"
    /\ Len(calls) = 2
    /\ calls[1].op = "TLSConfig" /\ calls[1].err = "ENOENT"
    /\ calls[2].op = "Dialer" /\ calls[2].err = "NotImplemented"
    /\ fs[CertPath].st = "missing"

\* the files of call k that cannot be read
UnreadableAt(k) == {p \in PathsOf(src) : calls[k].fsAt[p].st \in Unreadable}

\* C3: TLSConfig of a file-backed variant fails with the IOFailure kind
\* whenever a file it refers to cannot be read.
C3_UnreadableIsIOFailure ==
    \A k \in TLSCalls :
        (src.variant \in {"KeyPairCreds", "IdentityCreds"} /\ UnreadableAt(k) # {})
            => calls[k].err \in IOFailure

\* a CA bundle that can be read and of which no block parses
NoCAParsed(f) == f.st = "ok" /\ \A i \in DOMAIN f.blocks : f.blocks[i] = "junk"

\* the key pair of call k loads
KeyPairLoads(k) ==
    LET cf == calls[k].fsAt[src.certFile]
        kf == calls[k].fsAt[src.keyFile]
    IN cf.st = "ok" /\ kf.st = "ok" /\ cf.id # "bad" /\ cf.id = kf.id

\* C6: when the CA bundle KeyPairCreds.TLSConfig reads holds no parsable
\* certificate, the call fails with BadParameter and a nil configuration;
\* post-processing is not run for it (configurations exist only for the
\* calls that succeeded) and no configuration with an empty CA pool exists.
C6_BadCABundle ==
    src.variant = "KeyPairCreds" =>
        /\ \A k \in TLSCalls :
              (KeyPairLoads(k) /\ NoCAParsed(calls[k].fsAt[src.caFile])) =>
                  /\ calls[k].err = "BadParameter"
                  /\ calls[k].ref = 0
        /\ Len(heap.configs) = 2 * Cardinality(Resolved)
        /\ \A c \in DOMAIN heap.configs :
              heap.configs[c].RootCAs # 0 => heap.pools[heap.configs[c].RootCAs] # {}

\* the key pair loaded, the CA bundle held only junk, the call failed
C6_Witness ==
    /\ src.variant = "KeyPairCreds"
    /\ \E k \in TLSCalls :
          /\ KeyPairLoads(k)
          /\ calls[k].fsAt[src.caFile].blocks = <<"junk">>
          /\ calls[k].err = "BadParameter"
          /\ calls[k].ref = 0

\* C7: no call changes the source: its variant, paths and configuration
\* reference stay, and the configuration it holds keeps its certificate
\* list, callback, protocol list and server name.
C7_SourceImmutable ==
    [][/\ src' = src
       /\ src.tlsConfig # 0 =>
             /\ heap'.configs[src.tlsConfig] = heap.configs[src.tlsConfig]
             /\ View(heap', src.tlsConfig) = View(heap, src.tlsConfig)]_vars

\* two TLSConfig calls succeeded on a configuration that post-processing
\* had to change in every respect, and the configuration is as built
C7_Witness ==
    /\ src.variant = "TLSConfigCreds"
    /\ Cardinality(Resolved) = 2
    /\ src.tlsConfig # 0
    /\ heap.configs[src.tlsConfig] =
          Config(<<Certificate(1, "1")>>, 0, 1, 1, "")
    /\ View(heap, src.tlsConfig).protos = <<"http/1.1">>

\* C9: the server name of a returned configuration is the input's when that
\* is not empty and the API domain otherwise, with or without certificates.
C9_ServerName ==
    \A k \in Resolved :
        LET in == heap.configs[InputOf(k)]
            out == heap.configs[calls[k].ref]
        IN out.ServerName = IF in.ServerName # "" THEN in.ServerName ELSE APIDomain

\* an input without certificates and with a server name of its own was
\* post-processed
C9_Witness ==
    /\ src.variant = "TLSConfigCreds"
    /\ \E k \in Resolved :
          /\ heap.configs[InputOf(k)].Certificates = <<>>
          /\ heap.configs[InputOf(k)].ServerName = "auth.example.com"
          /\ heap.configs[calls[k].ref].ServerName = "auth.example.com"

\* C10: two TLSConfig calls on a key pair that read the same files fail with
\* the same error kind or return configurations that look the same; and the
\* result of a call is the one a first call on these files would have had.
C10_Idempotent ==
    src.variant = "KeyPairCreds" =>
        /\ \A i, j \in TLSCalls :
              calls[i].fsAt = calls[j].fsAt =>
                  /\ calls[i].err = calls[j].err
                  /\ calls[i].err = NoError =>
                        View(heap, calls[i].ref) = View(heap, calls[j].ref)
        /\ \A i \in TLSCalls :
              LET first == KeyPairCreds_TLSConfig(src, calls[i].fsAt, EmptyHeap) IN
              /\ calls[i].err = first.err
              /\ calls[i].err = NoError =>
                    View(heap, calls[i].ref) = View(first.h, first.ref)

\* two calls on unchanged files returned two configurations
C10_Witness ==
    /\ src.variant = "KeyPairCreds"
    /\ Len(calls) = 2
    /\ Resolved = {1, 2}
    /\ calls[1].fsAt = calls[2].fsAt
    /\ calls[1].ref # calls[2].ref
    /\ View(heap, calls[2].ref).pool = <<{"ca1", "ca2"}>>

----------------------------------------------------------------------------
(* Sharing between the configurations handed out *)

\* the write of this step cannot be observed through the source's
\* configuration nor through a configuration another call returned
WriteIsolated ==
    LET k == lastWrite'.via IN
    /\ src.tlsConfig # 0 =>
          View(heap', src.tlsConfig) = View(heap, src.tlsConfig)
    /\ \A j \in Resolved \ {k} :
          View(heap', calls[j].ref) = View(heap, calls[j].ref)

\* C8 as claimed: a write made through a returned configuration is never
\* observable through another returned configuration or through the source.
C8_NoSharedState == [][writes' = writes + 1 => WriteIsolated]_vars

\* what post-processing, or the call itself, allocates for each call: the
\* protocol list always, the certificate variable when the input carries a
\* certificate, and everything for the variants that build the
\* configuration from files
FreshPerCall(w) ==
    \/ src.variant # "TLSConfigCreds"
    \/ w.what = "protos"
    \/ w.what = "cert" /\ Len(heap.configs[src.tlsConfig].Certificates) > 0

\* C8 amended: a write through the protocol list of a returned
\* configuration, through the certificate variable its callback returns
\* when the input carried a certificate, or through anything of a
\* configuration built from files, is not observable through the source or
\* another returned configuration.
C8_FreshPerCall ==
    [][(writes' = writes + 1 /\ FreshPerCall(lastWrite')) => WriteIsolated]_vars

\* a caller wrote into the CA pool of the first of two configurations of a
\* key pair, and the second still has the pool of the file
C8_Witness ==
    /\ src.variant = "KeyPairCreds"
    /\ Resolved = {1, 2}
    /\ lastWrite = [via |-> 1, what |-> "pool"]
    /\ "tampered" \in heap.pools[heap.configs[calls[1].ref].RootCAs]
    /\ "tampered" \notin heap.pools[heap.configs[calls[2].ref].RootCAs]

----------------------------------------------------------------------------
(* Time, as the Go time package computes it *)

\* time.Time: seconds since the epoch and nanoseconds within the second
Time(sec, nsec) == [sec |-> sec, nsec |-> nsec]

\* time.Duration d, an integer number of nanoseconds, held as its quotient
\* and remainder on division by a second (Go's / and % truncate towards
\* zero, so both have the sign of d)
Duration(sec, nsec) == [sec |-> sec, nsec |-> nsec]

Hour == Duration(3600, 0)
Minute == Duration(60, 0)
\* apidefaults.MinCertDuration
MinCertDuration == Minute

\* n * d for a duration of whole seconds, as in -1*time.Minute
Times(n, d) == Duration(n * d.sec, n * d.nsec)

\* Time.Add
Add(t, d) ==
    LET nsec == t.nsec + d.nsec IN
    CASE nsec >= 1000000000 -> Time(t.sec + d.sec + 1, nsec - 1000000000)
      [] nsec < 0 -> Time(t.sec + d.sec - 1, nsec + 1000000000)
      [] OTHER -> Time(t.sec + d.sec, nsec)

\* Time.Unix
Unix(t) == t.sec

\* time.Unix(sec, 0)
TimeUnix(sec) == Time(sec, 0)

\* Time.Equal
Equal(t, u) == t.sec = u.sec /\ t.nsec = u.nsec

\* Time.UTC changes the location, not the instant
UTC(t) == t

----------------------------------------------------------------------------
(* The authority under test *)

\* the values the injected clock is fixed at
ClockValues == {Time(1000, 0), Time(1000, 500000000), Time(1000, 999999990)}

\* a certificate as sshutils.ParseCertificate reads it: ok is whether it
\* parses; roles and impersonator are its two extensions
Cert(ok, after, before, roles, impersonator) ==
    [ok |-> ok, ValidAfter |-> after, ValidBefore |-> before,
     roles |-> roles, impersonator |-> impersonator]

\* the requests of the suite: TTL, role list and impersonator
Request(name, ttl, roles, impersonator) ==
    [name |-> name, ttl |-> ttl, roles |-> roles, impersonator |-> impersonator]

HostRequest == Request("host", Hour, <<>>, "")
UserRequest1 == Request("user-1h", Hour, <<>>, "")
UserRequest2 == Request("user-negative", Duration(0, -20), <<>>, "")
UserRequest3 == Request("user-zero", Duration(0, 0), <<>>, "")
UserRequest4 == Request("user-1h-again", Hour, <<>>, "")
UserRequest5 == Request("user-roles", Hour, <<"role-1", "role-2">>, "alice")

\* what an authority may answer: an error, bytes that do not parse, or a
\* certificate with some window around the clock and some extensions
Answers(req) ==
    LET exts == IF req.roles = <<>>
                THEN {[roles |-> <<>>, impersonator |-> ""]}
                ELSE {[roles |-> r, impersonator |-> i] :
                        r \in {req.roles, <<"role-2", "role-1">>},
                        i \in {req.impersonator, ""}}
    IN {[err |-> TRUE, cert |-> NoCert], [err |-> FALSE, cert |-> NoCert]}
       \cup {[err |-> FALSE, cert |-> Cert(TRUE, va, vb, e.roles, e.impersonator)] :
               va \in {clock.sec - 60, clock.sec},
               vb \in {clock.sec, clock.sec + 60, clock.sec + 3600},
               e \in exts}

----------------------------------------------------------------------------
(* The acceptance suite *)

\* checkCertExpiry(cert, after, before): the error it returns
checkCertExpiry(c, after, before) ==
    CASE ~c.ok -> "ParseError"
      [] ~Equal(TimeUnix(c.ValidAfter), after) -> "BadParameter"
      [] ~Equal(TimeUnix(c.ValidBefore), before) -> "BadParameter"
      [] OTHER -> NoError

InitSuite ==
    /\ src = LoadTLS(0)
    /\ fs = [p \in Paths |-> NoFile]
    /\ heap = EmptyHeap
    /\ calls = <<>>
    /\ fileChanges = 0
    /\ lastWrite = NoWrite
    /\ writes = 0
    /\ clock \in ClockValues
    /\ pc = "idle"
    /\ cert = NoCert
    /\ issued = <<>>
    /\ verdict = "none"

\* a require.* assertion failed: the test stops
Fail ==
    /\ verdict' = "fail"
    /\ pc' = "done"

\* the keys are generated and the signer parsed (or not)
Start(test) ==
    /\ \E keysOk \in BOOLEAN :
          IF keysOk
          THEN verdict' = "running" /\ pc' = test
          ELSE Fail
    /\ UNCHANGED <<clock, cert, issued>>
    /\ UNCHANGED credVars

StartGenerateHostCert ==
    /\ pc = "idle"
    /\ Start("host")

StartGenerateUserCert ==
    /\ pc = "idle"
    /\ Start("user1")

\* GenerateHostCert, from the call of the authority on
GenerateHostCert ==
    /\ pc = "host"
    /\ \E a \in Answers(HostRequest) :
          /\ issued' = Append(issued, [req |-> HostRequest.name, answer |-> a])
          /\ cert' = a.cert
          /\ IF /\ ~a.err
                /\ a.cert.ok
                /\ Unix(TimeUnix(a.cert.ValidAfter)) = Unix(Add(UTC(clock), Times(-1, Minute)))
                /\ Unix(TimeUnix(a.cert.ValidBefore)) = Unix(Add(UTC(clock), Times(1, Hour)))
             THEN verdict' = "pass" /\ pc' = "done"
             ELSE Fail
    /\ UNCHANGED clock
    /\ UNCHANGED credVars

\* GenerateUserCert, first request: one hour
GenerateUserCert1 ==
    /\ pc = "user1"
    /\ \E a \in Answers(UserRequest1) :
          /\ issued' = Append(issued, [req |-> UserRequest1.name, answer |-> a])
          /\ cert' = a.cert
          /\ IF /\ ~a.err
                /\ checkCertExpiry(a.cert, Add(clock, Times(-1, Minute)),
                                   Add(clock, Times(1, Hour))) = NoError
             THEN pc' = "user2" /\ UNCHANGED verdict
             ELSE Fail
    /\ UNCHANGED clock
    /\ UNCHANGED credVars

\* second request: a TTL of -20
GenerateUserCert2 ==
    /\ pc = "user2"
    /\ \E a \in Answers(UserRequest2) :
          /\ issued' = Append(issued, [req |-> UserRequest2.name, answer |-> a])
          /\ cert' = a.cert
          /\ IF /\ ~a.err
                /\ checkCertExpiry(a.cert, Add(clock, Times(-1, Minute)),
                                   Add(clock, MinCertDuration)) = NoError
             THEN pc' = "user3" /\ UNCHANGED verdict
             ELSE Fail
    /\ UNCHANGED clock
    /\ UNCHANGED credVars

\* third request: a TTL of 0; the answer is assigned to _, not to cert, and
\* checkCertExpiry is given cert
GenerateUserCert3 ==
    /\ pc = "user3"
    /\ \E a \in Answers(UserRequest3) :
          /\ issued' = Append(issued, [req |-> UserRequest3.name, answer |-> a])
          /\ IF /\ ~a.err
                /\ checkCertExpiry(cert, Add(clock, Times(-1, Minute)),
                                   Add(clock, MinCertDuration)) = NoError
             THEN pc' = "user4" /\ UNCHANGED verdict
             ELSE Fail
    /\ UNCHANGED <<clock, cert>>
    /\ UNCHANGED credVars

\* fourth request: one hour again, only the error is looked at
GenerateUserCert4 ==
    /\ pc = "user4"
    /\ \E a \in Answers(UserRequest4) :
          /\ issued' = Append(issued, [req |-> UserRequest4.name, answer |-> a])
          /\ IF ~a.err
             THEN pc' = "user5" /\ UNCHANGED verdict
             ELSE Fail
    /\ UNCHANGED <<clock, cert>>
    /\ UNCHANGED credVars

\* fifth request: roles and impersonator, read back from the extensions
GenerateUserCert5 ==
    /\ pc = "user5"
    /\ \E a \in Answers(UserRequest5) :
          /\ issued' = Append(issued, [req |-> UserRequest5.name, answer |-> a])
          /\ IF a.err THEN UNCHANGED cert ELSE cert' = a.cert
          /\ IF /\ ~a.err
                /\ a.cert.ok
                /\ a.cert.roles = UserRequest5.roles
                /\ a.cert.impersonator = UserRequest5.impersonator
             THEN verdict' = "pass" /\ pc' = "done"
             ELSE Fail
    /\ UNCHANGED clock
    /\ UNCHANGED credVars

NextSuite ==
    \/ StartGenerateHostCert
    \/ StartGenerateUserCert
    \/ GenerateHostCert
    \/ GenerateUserCert1
    \/ GenerateUserCert2
    \/ GenerateUserCert3
    \/ GenerateUserCert4
    \/ GenerateUserCert5

SpecSuite == InitSuite /\ [][NextSuite]_vars

----------------------------------------------------------------------------
(* Properties of the acceptance suite *)

\* the window [now - 1 minute, now + d] in the seconds a certificate holds
WindowIs(c, d) ==
    /\ c.ok
    /\ c.ValidAfter = Unix(Add(clock, Times(-1, Minute)))
    /\ c.ValidBefore = Unix(Add(clock, d))

\* the user-certificate sequence ran to its end and passed
UserSequencePassed ==
    /\ verdict = "pass"
    /\ Len(issued) = 5
    /\ issued[1].req = UserRequest1.name

\* C4: the user-certificate sequence passes only if the certificate
\* returned for the request with TTL 0 has the window
\* [now - 1 minute, now + MinCertDuration].
C4_ZeroTTLEnforced ==
    UserSequencePassed => WindowIs(issued[3].answer.cert, MinCertDuration)

\* the check of the one-hour certificate has been made and did not fail
Accepted1h ==
    /\ Len(issued) >= 1
    /\ ~(verdict = "fail" /\ Len(issued) = 1)

\* C5: whatever the clock is fixed at, the host-certificate check and the
\* first user-certificate check accept the one-hour certificate exactly when
\* its seconds are those of now - 1 minute and now + 1 hour.
C5_SameWindowAccepted ==
    (Len(issued) >= 1 /\ issued[1].req \in {HostRequest.name, UserRequest1.name}
        /\ ~issued[1].answer.err /\ issued[1].answer.cert.ok)
    => (Accepted1h <=> WindowIs(issued[1].answer.cert, Hour))

====
